---- MODULE Spec2Model ----
(***************************************************************************)
(* A model of trello_to_pivotal.py (Python 2): the board lookups, the      *)
(* column counts, the card sort, paginate, and the per-card transform of   *)
(* the main loop.                                                          *)
(*                                                                         *)
(* A Python string is a sequence of one-character strings, so that the     *)
(* regular expressions, split, strip, int and join act on characters.      *)
(* The titles are ASCII without newline or sign characters: on them        *)
(* encode("utf-8") returns the same bytes and '.' matches every character. *)
(* Python's None is the empty tuple and a present integer n is <<n>>.      *)
(***************************************************************************)
EXTENDS Integers, Sequences, FiniteSets, TLC

VARIABLES
    board,            \* json.loads(f.read()): [name, lists, members, cards]
    arguments,        \* [story_limit, default_estimate]
    labelItems,       \* the order LABEL_ESTIMATES.items() yields in this run
    pc,               \* position of the script
    lists,            \* list id -> list name
    listorders,       \* list id -> list pos
    members,          \* member id -> fullName
    max_num_tasks,
    max_comments,
    all_cards,        \* board['cards'] after the sort
    pages,            \* paginate(all_cards, story_limit)
    page,             \* index of the page being written (0-based, as enumerate)
    cardIdx,          \* number of cards of the current page already handled
    files,            \* the CSV files written so far: [header, rows]
    checkItemStates,  \* the script-level variable of line 190
    err               \* the exception that ended the run, "" when none

vars == <<board, arguments, labelItems, pc, lists, listorders, members,
          max_num_tasks, max_comments, all_cards, pages, page, cardIdx,
          files, checkItemStates, err>>

(***************************************************************************)
(* Python values                                                           *)
(***************************************************************************)
None == <<>>
Some(n) == <<n>>

Range(s) == {s[i] : i \in 1..Len(s)}

Min(a, b) == IF a <= b THEN a ELSE b
Max(a, b) == IF a >= b THEN a ELSE b

\* s[lo:hi] of Python, 0-based, lo >= 0, hi >= lo
Slice(s, lo, hi) == SubSeq(s, lo + 1, Min(hi, Len(s)))

Digits == {"0", "1", "2", "3", "4", "5", "6", "7", "8", "9"}

DigitVal(c) ==
    CASE c = "0" -> 0 [] c = "1" -> 1 [] c = "2" -> 2 [] c = "3" -> 3
      [] c = "4" -> 4 [] c = "5" -> 5 [] c = "6" -> 6 [] c = "7" -> 7
      [] c = "8" -> 8 [] c = "9" -> 9

DigitChar(d) ==
    CASE d = 0 -> "0" [] d = 1 -> "1" [] d = 2 -> "2" [] d = 3 -> "3"
      [] d = 4 -> "4" [] d = 5 -> "5" [] d = 6 -> "6" [] d = 7 -> "7"
      [] d = 8 -> "8" [] d = 9 -> "9"

AllDigits(s) == \A i \in 1..Len(s) : s[i] \in Digits

\* int(x) accepts x: on the model's characters, a non-empty run of digits
IntParses(s) == Len(s) >= 1 /\ AllDigits(s)

RECURSIVE PyInt(_)
PyInt(s) ==
    IF Len(s) = 0 THEN 0
    ELSE 10 * PyInt(SubSeq(s, 1, Len(s) - 1)) + DigitVal(s[Len(s)])

RECURSIVE PyStr(_)
PyStr(n) ==
    IF n < 10 THEN <<DigitChar(n)>>
    ELSE Append(PyStr(n \div 10), DigitChar(n % 10))

RECURSIVE LStrip(_)
LStrip(s) == IF Len(s) >= 1 /\ s[1] = " " THEN LStrip(Tail(s)) ELSE s

RECURSIVE RStrip(_)
RStrip(s) ==
    IF Len(s) >= 1 /\ s[Len(s)] = " " THEN RStrip(SubSeq(s, 1, Len(s) - 1)) ELSE s

Strip(s) == RStrip(LStrip(s))

\* s.split(sep) for a one-character sep
RECURSIVE SplitFrom(_, _, _)
SplitFrom(s, sep, cur) ==
    IF Len(s) = 0 THEN <<cur>>
    ELSE IF s[1] = sep THEN <<cur>> \o SplitFrom(Tail(s), sep, <<>>)
    ELSE SplitFrom(Tail(s), sep, Append(cur, s[1]))

Split(s, sep) == SplitFrom(s, sep, <<>>)

\* sep.join(parts) for a one-character sep
RECURSIVE Join(_, _)
Join(parts, sep) ==
    IF Len(parts) = 0 THEN <<>>
    ELSE IF Len(parts) = 1 THEN parts[1]
    ELSE parts[1] \o <<sep>> \o Join(Tail(parts), sep)

RECURSIVE SeqSum(_)
SeqSum(s) == IF Len(s) = 0 THEN 0 ELSE s[1] + SeqSum(Tail(s))

(***************************************************************************)
(* String constants of the script                                          *)
(***************************************************************************)
S_EpicsTriage == <<"E", "p", "i", "c", "s", " ", "/", " ", "T", "r", "i", "a", "g", "e">>
S_Backlog == <<"B", "a", "c", "k", "l", "o", "g">>
S_NextUp == <<"N", "e", "x", "t", " ", "U", "p">>
S_InProgressNow == <<"I", "n", " ", "P", "r", "o", "g", "r", "e", "s", "s", " ", "N", "o", "w">>
S_Blocked == <<"B", "l", "o", "c", "k", "e", "d">>
S_Feedback == <<"F", "e", "e", "d", "b", "a", "c", "k">>
S_Resolved == <<"R", "e", "s", "o", "l", "v", "e", "d">>
S_Unresolved == <<"U", "n", "r", "e", "s", "o", "l", "v", "e", "d">>
S_Closed == <<"C", "l", "o", "s", "e", "d">>
S_Short == <<"S", "h", "o", "r", "t">>
S_Medium == <<"M", "e", "d", "i", "u", "m">>
S_Checklist == <<"C", "h", "e", "c", "k", "l", "i", "s", "t">>
S_ImportedFrom == <<"I", "m", "p", "o", "r", "t", "e", "d", " ", "f", "r", "o", "m", " ">>

\* the two regular expressions, by what they look for
NAME_TAG_RES == <<"tags: name", "[tags]:? name">>

LIST_STATES ==
    (S_EpicsTriage :> "epic") @@ (S_Backlog :> "unstarted") @@
    (S_NextUp :> "unstarted") @@ (S_InProgressNow :> "started") @@
    (S_Blocked :> "started") @@ (S_Feedback :> "delivered") @@
    (S_Resolved :> "accepted") @@ (S_Unresolved :> "accepted") @@
    (S_Closed :> "accepted")

\* every entry of the dict is commented out
LIST_ESTIMATES == <<>>

LABEL_ESTIMATES == (S_Short :> 1) @@ (S_Medium :> 2)

CHECKBOX_STATES == ("incomplete" :> "not completed") @@ ("complete" :> "completed")

\* d.get(k, default)
DictGet(d, k, default) == IF k \in DOMAIN d THEN d[k] ELSE default

\* the dict built by assigning d[k] = v for each <<k, v>> in turn: a later
\* entry of the same key wins
RECURSIVE DictOf(_)
DictOf(pairs) ==
    IF Len(pairs) = 0 THEN <<>>
    ELSE LET last == pairs[Len(pairs)]
             rest == DictOf(SubSeq(pairs, 1, Len(pairs) - 1))
         IN  [k \in (DOMAIN rest) \cup {last[1]} |->
                 IF k = last[1] THEN last[2] ELSE rest[k]]

(***************************************************************************)
(* paginate, lines 66-69.  Python 2: len(iterable) / num is floor division *)
(***************************************************************************)
\* paginate without the "+ 1" of line 68: the last, shorter page is lost
paginate_NoLastPage(iterable, num) ==
    LET n == Len(iterable) \div num
        chunks == [i \in 1..n |-> Slice(iterable, (i - 1) * num, i * num)]
    IN  SelectSeq(chunks, LAMBDA c : c # <<>>)

paginate(iterable, num) ==
    LET n == (Len(iterable) \div num) + 1
        chunks == [i \in 1..n |-> Slice(iterable, (i - 1) * num, i * num)]
    IN  SelectSeq(chunks, LAMBDA c : c # <<>>)

(***************************************************************************)
(* The sort of line 122.  list.sort is stable; on fewer than 64 elements   *)
(* it is a binary insertion sort, each element going after the elements    *)
(* whose key is not greater.                                               *)
(***************************************************************************)
\* the key of line 122 without the minus sign
SortKey_Ascending(x, orders) == <<orders[x.idList], x.pos>>

SortKey(x, orders) == <<0 - orders[x.idList], x.pos>>

KeyLess(a, b) == a[1] < b[1] \/ (a[1] = b[1] /\ a[2] < b[2])

RECURSIVE InsertPoint(_, _, _, _)
InsertPoint(s, x, orders, p) ==
    IF p > 0 /\ KeyLess(SortKey(x, orders), SortKey(s[p], orders))
    THEN InsertPoint(s, x, orders, p - 1)
    ELSE p

InsertSorted(s, x, orders) ==
    LET p == InsertPoint(s, x, orders, Len(s))
    IN  SubSeq(s, 1, p) \o <<x>> \o SubSeq(s, p + 1, Len(s))

RECURSIVE SortFrom(_, _, _)
SortFrom(done, todo, orders) ==
    IF Len(todo) = 0 THEN done
    ELSE SortFrom(InsertSorted(done, todo[1], orders), Tail(todo), orders)

SortedCards(cards, orders) == SortFrom(<<>>, cards, orders)

(***************************************************************************)
(* Column counts, lines 105-118                                            *)
(***************************************************************************)
NumTasks(card) ==
    IF "checklists" \in DOMAIN card
    THEN SeqSum([i \in 1..Len(card.checklists) |-> Len(card.checklists[i].checkItems)])
    ELSE 0

\* the count of lines 106-112 as a per-card maximum instead of a sum
RECURSIVE MaxNumTasks_PerCardMax(_)
MaxNumTasks_PerCardMax(cards) ==
    IF Len(cards) = 0 THEN 0
    ELSE Max(NumTasks(cards[1]), MaxNumTasks_PerCardMax(Tail(cards)))

MaxNumTasks(cards) == SeqSum([i \in 1..Len(cards) |-> NumTasks(cards[i])])

RECURSIVE MaxComments(_)
MaxComments(cards) ==
    IF Len(cards) = 0 THEN 0
    ELSE LET m == MaxComments(SubSeq(cards, 1, Len(cards) - 1))
             card == cards[Len(cards)]
         IN  IF "comments" \in DOMAIN card THEN Max(m, card.comments) ELSE m

FixedColumns ==
    <<"Title", "Description", "Owned By", "Requested By", "Labels",
      "Current State", "Type", "Estimate">>

RECURSIVE Repeat(_, _)
Repeat(s, n) == IF n <= 0 THEN <<>> ELSE s \o Repeat(s, n - 1)

HeaderRow(numTasks, numComments) ==
    FixedColumns \o Repeat(<<"Task", "Task Status">>, numTasks)
                 \o Repeat(<<"Comment">>, numComments)

(***************************************************************************)
(* Title and tag extraction, lines 149-164                                 *)
(***************************************************************************)
SetMin(S) == CHOOSE x \in S : \A y \in S : x <= y

\* re.search('^\((\d+?)\) (.+)', name): the numbers of digits k for which
\* "(" k digits ")" " " and at least one more character is a match
EstimateMatches(name) ==
    {k \in 1..Len(name) :
        /\ Len(name) >= k + 4
        /\ name[1] = "("
        /\ AllDigits(SubSeq(name, 2, k + 1))
        /\ name[k + 2] = ")"
        /\ name[k + 3] = " "}

\* group(2) of that match
EstimateRest(name) == SubSeq(name, SetMin(EstimateMatches(name)) + 4, Len(name))

\* r'^(?P<tags>.+?): (?P<name>.+)': the lengths of tags that give a match
ColonMatches(name) ==
    {i \in 1..Len(name) :
        /\ Len(name) >= i + 3
        /\ name[i + 1] = ":"
        /\ name[i + 2] = " "}

\* r'^\[(?P<tags>.+?)\]:? (?P<name>.+)': the lengths of tags that give a match
BracketMatches(name) ==
    {k \in 1..Len(name) :
        /\ Len(name) >= k + 4
        /\ name[1] = "["
        /\ name[k + 2] = "]"
        /\ \/ name[k + 3] = " "
           \/ /\ Len(name) >= k + 5
              /\ name[k + 3] = ":"
              /\ name[k + 4] = " "}

\* re.match(regex, name): None, or the groupdict of the match; .+? is lazy,
\* so the shortest tags that give a match are the ones matched
MatchTag(regex, name) ==
    IF regex = "tags: name"
    THEN IF ColonMatches(name) = {} THEN None
         ELSE LET i == SetMin(ColonMatches(name))
              IN  Some([tags |-> SubSeq(name, 1, i),
                        name |-> SubSeq(name, i + 3, Len(name))])
    ELSE IF BracketMatches(name) = {} THEN None
         ELSE LET k == SetMin(BracketMatches(name))
                  from == IF name[k + 3] = " " THEN k + 4 ELSE k + 5
              IN  Some([tags |-> SubSeq(name, 2, k + 1),
                        name |-> SubSeq(name, from, Len(name))])

\* map(lambda x: x.strip(), tags.split('/'))
TagSegments(tags) ==
    LET parts == Split(tags, "/")
    IN  [i \in 1..Len(parts) |-> Strip(parts[i])]

\* the lambda of line 163, str(int(x)) != x, where int(x) does not raise
KeepSegment(x) == PyStr(PyInt(x)) # x

\* filter(lambda x: str(int(x)) != x, segs): int(x) raises ValueError on a
\* segment that is not an integer literal
FilterSegments(segs) ==
    IF \E i \in 1..Len(segs) : ~IntParses(segs[i])
    THEN [err |-> "ValueError", kept |-> <<>>]
    ELSE [err |-> "", kept |-> SelectSeq(segs, KeepSegment)]

\* lines 150-164: [err, name, labels]
ExtractTitle(name, labels) ==
    IF EstimateMatches(name) # {}
    THEN [err |-> "", name |-> EstimateRest(name), labels |-> labels]
    ELSE LET hits == SelectSeq(NAME_TAG_RES, LAMBDA r : MatchTag(r, name) # None)
         IN  IF hits = <<>>
             THEN [err |-> "", name |-> name, labels |-> labels]
             ELSE LET groups == MatchTag(hits[1], name)[1]
                      f == FilterSegments(TagSegments(groups.tags))
                  IN  [err |-> f.err, name |-> groups.name,
                       labels |-> labels \o f.kept]

(***************************************************************************)
(* State, story type and estimate, lines 139-145 and 166-178               *)
(***************************************************************************)
CurrentState(list_name) ==
    LET s == DictGet(LIST_STATES, list_name, "unscheduled")
    IN  IF s = "epic" THEN "unscheduled" ELSE s

StoryType(list_name) ==
    IF DictGet(LIST_STATES, list_name, "unscheduled") = "epic"
    THEN "epic" ELSE "feature"

\* lines 167-178 without the epic branch of lines 168-169
Estimate_NoEpicBranch(list_name, story_type, current_state, labels, items, default_estimate) ==
    IF story_type = "feature" /\ current_state \in {"unstarted", "unscheduled"}
    THEN None
    ELSE LET hits == SelectSeq(items, LAMBDA l : l \in Range(labels))
         IN  IF hits # <<>> THEN Some(LABEL_ESTIMATES[hits[1]])
             ELSE Some(default_estimate)

\* items: the label names in the order LABEL_ESTIMATES.items() yields them
Estimate(list_name, story_type, current_state, labels, items, default_estimate) ==
    LET estimate0 == IF list_name \in DOMAIN LIST_ESTIMATES
                     THEN Some(LIST_ESTIMATES[list_name]) ELSE None
    IN  IF story_type = "epic" THEN None
        ELSE IF story_type = "feature" /\ current_state \in {"unstarted", "unscheduled"}
        THEN None
        ELSE LET hits == SelectSeq(items, LAMBDA l : l \in Range(labels))
                 estimate1 == IF hits # <<>> THEN Some(LABEL_ESTIMATES[hits[1]])
                              ELSE estimate0
             IN  IF estimate1 = None THEN Some(default_estimate) ELSE estimate1

\* lines 180-182 without the test of line 181
WithListLabel_Always(labels, list_name) == labels \o <<list_name>>

\* lines 180-182
WithListLabel(labels, list_name) ==
    IF list_name \notin DOMAIN LIST_STATES THEN labels \o <<list_name>> ELSE labels

(***************************************************************************)
(* Owner, description and tasks, lines 184-198                             *)
(***************************************************************************)
Description(card) ==
    LET orig_description == IF "desc" \in DOMAIN card THEN card.desc ELSE <<>>
    IN  (IF orig_description # <<>> THEN orig_description \o <<"\n">> ELSE <<>>)
            \o S_ImportedFrom \o card.url

\* line 188 with a lookup that yields '' for an unknown member id
Owner_Lenient(card, mems) ==
    IF card.idMembers = <<>> \/ card.idMembers[1] \notin DOMAIN mems
    THEN [err |-> "", owner |-> <<>>]
    ELSE [err |-> "", owner |-> mems[card.idMembers[1]]]

\* line 188: [err, owner]
Owner(card, mems) ==
    IF card.idMembers = <<>> THEN [err |-> "", owner |-> <<>>]
    ELSE IF card.idMembers[1] \in DOMAIN mems
    THEN [err |-> "", owner |-> mems[card.idMembers[1]]]
    ELSE [err |-> "KeyError", owner |-> <<>>]

\* lines 189-190: the variable is assigned only when the card has the field,
\* and keeps whatever it held (or stays unbound) otherwise
BindCheckItemStates(card, cis) ==
    IF "checkItemStates" \in DOMAIN card
    THEN [bound |-> TRUE,
          map |-> DictOf([i \in 1..Len(card.checkItemStates) |->
                            <<card.checkItemStates[i].idCheckItem,
                              card.checkItemStates[i].state>>])]
    ELSE cis

\* the (pre, item) pairs the two loops of lines 194-196 visit, in order
RECURSIVE ItemsOf(_)
ItemsOf(checklists) ==
    IF Len(checklists) = 0 THEN <<>>
    ELSE LET checklist == checklists[1]
             pre == IF checklist.name # S_Checklist
                    THEN checklist.name \o <<":", " ">> ELSE <<>>
         IN  [i \in 1..Len(checklist.checkItems) |->
                 [pre |-> pre, item |-> checklist.checkItems[i]]]
             \o ItemsOf(Tail(checklists))

CardItems(card) ==
    IF "checklists" \in DOMAIN card THEN ItemsOf(card.checklists) ELSE <<>>

RECURSIVE Flatten(_)
Flatten(ss) == IF Len(ss) = 0 THEN <<>> ELSE ss[1] \o Flatten(Tail(ss))

\* lines 192-198 with the variable checkItemStates as it is then: [err, tasks].
\* Reading the unbound variable raises NameError at the first item.
Tasks(card, cis) ==
    LET its == CardItems(card)
        raw(i) == DictGet(cis.map, its[i].item.id, its[i].item.state)
    IN  IF its = <<>> THEN [err |-> "", tasks |-> <<>>]
        ELSE IF ~cis.bound THEN [err |-> "NameError", tasks |-> <<>>]
        ELSE IF \E i \in 1..Len(its) : raw(i) \notin DOMAIN CHECKBOX_STATES
        THEN [err |-> "KeyError", tasks |-> <<>>]
        ELSE [err |-> "",
              tasks |-> Flatten([i \in 1..Len(its) |->
                           <<its[i].pre \o its[i].item.name,
                             CHECKBOX_STATES[raw(i)]>>])]

(***************************************************************************)
(* The body of the card loop, lines 136-212: [err, row, cis]; the first    *)
(* statement that raises decides err, and no row is written then.          *)
(***************************************************************************)
CardLabels(card) == [i \in 1..Len(card.labels) |-> card.labels[i].name]

TransformCard(card, cis, lsts, mems, items, default_estimate) ==
    IF card.idList \notin DOMAIN lsts
    THEN [err |-> "KeyError", row |-> <<>>, cis |-> cis]
    ELSE
    LET list_name == lsts[card.idList]
        current_state == CurrentState(list_name)
        story_type == StoryType(list_name)
        t == ExtractTitle(card.name, CardLabels(card))
        estimate == Estimate(list_name, story_type, current_state, t.labels,
                             items, default_estimate)
        labels == WithListLabel(t.labels, list_name)
        o == Owner(card, mems)
        cis1 == BindCheckItemStates(card, cis)
        k == Tasks(card, cis1)
    IN  IF t.err # "" THEN [err |-> t.err, row |-> <<>>, cis |-> cis]
        ELSE IF o.err # "" THEN [err |-> o.err, row |-> <<>>, cis |-> cis]
        ELSE IF k.err # "" THEN [err |-> k.err, row |-> <<>>, cis |-> cis1]
        ELSE [err |-> "",
              row |-> <<t.name, Description(card), o.owner, o.owner,
                        Join(labels, ","), current_state, story_type, estimate>>
                      \o k.tasks,
              cis |-> cis1]

(***************************************************************************)
(* The script, lines 84-212                                                *)
(***************************************************************************)
Unbound == [bound |-> FALSE, map |-> <<>>]

\* the state the script starts in, for one input file and command line
Start(b, args, items) ==
    /\ board = b
    /\ arguments = args
    /\ labelItems = items
    /\ pc = "read"
    /\ lists = <<>>
    /\ listorders = <<>>
    /\ members = <<>>
    /\ max_num_tasks = 0
    /\ max_comments = 0
    /\ all_cards = <<>>
    /\ pages = <<>>
    /\ page = 0
    /\ cardIdx = 0
    /\ files = <<>>
    /\ checkItemStates = Unbound
    /\ err = ""

\* lines 84-118: the lookups and the two column counts
ReadBoard ==
    /\ pc = "read"
    /\ lists' = DictOf([i \in 1..Len(board.lists) |->
                          <<board.lists[i].id, board.lists[i].name>>])
    /\ listorders' = DictOf([i \in 1..Len(board.lists) |->
                               <<board.lists[i].id, board.lists[i].pos>>])
    /\ members' = DictOf([i \in 1..Len(board.members) |->
                            <<board.members[i].id, board.members[i].fullName>>])
    /\ max_num_tasks' = MaxNumTasks(board.cards)
    /\ max_comments' = MaxComments(board.cards)
    /\ pc' = "sort"
    /\ UNCHANGED <<board, arguments, labelItems, all_cards, pages, page,
                   cardIdx, files, checkItemStates, err>>

\* lines 120-122: the key function raises KeyError on a list id that
\* listorders lacks, and the run ends there
SortCards ==
    /\ pc = "sort"
    /\ IF \E i \in 1..Len(board.cards) : board.cards[i].idList \notin DOMAIN listorders
       THEN /\ pc' = "failed"
            /\ err' = "KeyError"
            /\ all_cards' = board.cards
       ELSE /\ pc' = "paginate"
            /\ err' = err
            /\ all_cards' = SortedCards(board.cards, listorders)
    /\ UNCHANGED <<board, arguments, labelItems, lists, listorders, members,
                   max_num_tasks, max_comments, pages, page, cardIdx, files,
                   checkItemStates>>

\* lines 125-126
Paginate ==
    /\ pc = "paginate"
    /\ pages' = paginate(all_cards, arguments.story_limit)
    /\ page' = 0
    /\ pc' = "page"
    /\ UNCHANGED <<board, arguments, labelItems, lists, listorders, members,
                   max_num_tasks, max_comments, all_cards, cardIdx, files,
                   checkItemStates, err>>

\* lines 127-133: the next page's file is opened and its header written
OpenPage ==
    /\ pc = "page"
    /\ page < Len(pages)
    /\ files' = Append(files, [header |-> HeaderRow(max_num_tasks, max_comments),
                               rows |-> <<>>])
    /\ cardIdx' = 0
    /\ pc' = "card"
    /\ UNCHANGED <<board, arguments, labelItems, lists, listorders, members,
                   max_num_tasks, max_comments, all_cards, pages, page,
                   checkItemStates, err>>

\* lines 135-212 for the next card of the page: its row is written, or the
\* exception ends the run
WriteCard ==
    /\ pc = "card"
    /\ cardIdx < Len(pages[page + 1])
    /\ LET card == pages[page + 1][cardIdx + 1]
           r == TransformCard(card, checkItemStates, lists, members, labelItems,
                              arguments.default_estimate)
       IN  /\ checkItemStates' = r.cis
           /\ IF r.err # ""
              THEN /\ pc' = "failed"
                   /\ err' = r.err
                   /\ UNCHANGED <<files, cardIdx>>
              ELSE /\ files' = [files EXCEPT ![Len(files)].rows = Append(@, r.row)]
                   /\ cardIdx' = cardIdx + 1
                   /\ UNCHANGED <<pc, err>>
    /\ UNCHANGED <<board, arguments, labelItems, lists, listorders, members,
                   max_num_tasks, max_comments, all_cards, pages, page>>

\* the page's cards are exhausted: the file is closed, on to the next page
NextPage ==
    /\ pc = "card"
    /\ cardIdx = Len(pages[page + 1])
    /\ page' = page + 1
    /\ pc' = "page"
    /\ UNCHANGED <<board, arguments, labelItems, lists, listorders, members,
                   max_num_tasks, max_comments, all_cards, pages, cardIdx,
                   files, checkItemStates, err>>

\* the page loop is exhausted: the script ends
Finish ==
    /\ pc = "page"
    /\ page = Len(pages)
    /\ pc' = "done"
    /\ UNCHANGED <<board, arguments, labelItems, lists, listorders, members,
                   max_num_tasks, max_comments, all_cards, pages, page, cardIdx,
                   files, checkItemStates, err>>

Next ==
    \/ ReadBoard
    \/ SortCards
    \/ Paginate
    \/ OpenPage
    \/ WriteCard
    \/ NextPage
    \/ Finish

(***************************************************************************)
(* Inputs: the boards and command lines the runs are checked on            *)
(***************************************************************************)
MaxOrderCards == 4
MaxHeaderCards == 3
MaxLimit == 3

\* --story-limit and --default-estimate when not given, lines 77-78
DefaultStoryLimit == 500
DefaultEstimate == 0

\* the items of the dict literal of lines 48-51 in their written order
DeclaredItems == <<S_Short, S_Medium>>

SeqsUpTo(S, n) == UNION {[1..k -> S] : k \in 0..n}

BoardMembers == <<[id |-> "m1", fullName |-> <<"A", "n", "n">>],
                  [id |-> "m2", fullName |-> <<"B", "o", "b">>]>>

\* a card with the required fields of the export; opt holds the optional ones
Card(i, name, idList, pos, idMembers, labels, opt) ==
    [id |-> i, name |-> name, url |-> <<"u", DigitChar(i)>>, idList |-> idList,
     pos |-> pos, idMembers |-> idMembers,
     labels |-> [j \in 1..Len(labels) |-> [name |-> labels[j]]]] @@ opt

Board(ls, cards) ==
    [name |-> <<"B">>, lists |-> ls, members |-> BoardMembers, cards |-> cards]

Item(id, name, state) == [id |-> id, name |-> name, state |-> state]

\* Boards for the order of the cards and the pages: two of the three lists
\* share a position, and cards may share a list and a position
OrderLists ==
    <<[id |-> "l1", name |-> S_InProgressNow, pos |-> 1],
      [id |-> "l2", name |-> S_Feedback, pos |-> 2],
      [id |-> "l3", name |-> S_Resolved, pos |-> 2]>>

OrderBoards ==
    {Board(OrderLists,
           [i \in 1..Len(v) |-> Card(i, <<"t">>, v[i][1], v[i][2], <<"m1">>, <<>>, <<>>)]) :
        v \in SeqsUpTo({"l1", "l2", "l3"} \X {1, 2}, MaxOrderCards)}

InitOrder ==
    \E b \in OrderBoards, n \in 1..MaxLimit :
        Start(b, [story_limit |-> n, default_estimate |-> DefaultEstimate],
              DeclaredItems)

SpecOrder == InitOrder /\ [][Next]_vars

\* Boards for the header: cards with no, one or two checklists, and with
\* or without a comment count
HeaderChecklists ==
    {<<>>,
     [checklists |-> <<[name |-> S_Checklist,
                        checkItems |-> <<Item("i1", <<"x">>, "incomplete")>>]>>,
      checkItemStates |-> <<>>],
     [checklists |-> <<[name |-> <<"Q", "A">>,
                        checkItems |-> <<Item("i2", <<"y">>, "complete"),
                                         Item("i3", <<"z">>, "incomplete")>>],
                       [name |-> S_Checklist,
                        checkItems |-> <<Item("i4", <<"w">>, "incomplete")>>]>>,
      checkItemStates |-> <<[idCheckItem |-> "i3", state |-> "complete"]>>]}

HeaderComments == {<<>>, [comments |-> 2], [comments |-> 1]}

HeaderBoards ==
    {Board(OrderLists,
           [i \in 1..Len(v) |->
               Card(i, <<"t">>, "l1", i, <<>>, <<>>, v[i][1] @@ v[i][2])]) :
        v \in SeqsUpTo(HeaderChecklists \X HeaderComments, MaxHeaderCards)}

InitHeader ==
    \E b \in HeaderBoards, n \in 1..MaxLimit :
        Start(b, [story_limit |-> n, default_estimate |-> DefaultEstimate],
              DeclaredItems)

SpecHeader == InitHeader /\ [][Next]_vars

\* Boards of one card for the row's cells: the card's list is the epic list,
\* an unstarted, a started or a delivered list, or a list the state map
\* lacks; its labels and its title vary, and so does the default estimate
MaxDefaultEstimate == 3

S_Todo == <<"T", "o", "d", "o">>

RowLists ==
    <<[id |-> "l1", name |-> S_EpicsTriage, pos |-> 1],
      [id |-> "l2", name |-> S_Backlog, pos |-> 2],
      [id |-> "l3", name |-> S_InProgressNow, pos |-> 3],
      [id |-> "l4", name |-> S_Feedback, pos |-> 4],
      [id |-> "l5", name |-> S_Todo, pos |-> 5]>>

RowLabels ==
    {<<>>, <<S_Short>>, <<S_Medium>>, <<S_Short, S_Medium>>, <<S_Medium, S_Short>>,
     <<<<"x">>>>, <<S_Backlog>>, <<S_Todo, S_Medium>>}

RowTitles ==
    {<<"t">>,
     <<"(", "1", ")", " ", "t">>,
     <<"0", "7", ":", " ", "t">>,
     <<"1", ":", " ", "t">>,
     <<"[", "0", "7", "]", " ", "t">>,
     <<"[", "1", "/", "0", "2", "]", ":", " ", "t">>,
     <<"a", ":", " ", "t">>}

\* the orders in which a Python 2 dict of these two keys can yield its items
ItemOrders == {<<S_Short, S_Medium>>, <<S_Medium, S_Short>>}

RowBoards ==
    {Board(RowLists, <<Card(1, t, l, 1, <<"m1">>, ls, <<>>)>>) :
        t \in RowTitles, l \in {"l1", "l2", "l3", "l4", "l5"}, ls \in RowLabels}

InitRow ==
    \E b \in RowBoards, d \in 0..MaxDefaultEstimate, items \in ItemOrders :
        Start(b, [story_limit |-> DefaultStoryLimit, default_estimate |-> d], items)

SpecRow == InitRow /\ [][Next]_vars

\* Boards of one card for the titles: every title of up to MaxTitleLen
\* characters of TitleChars, and the two titles of the documentation
MaxTitleLen == 5

TitleChars == {"a", "0", "1", "[", "]", ":", " ", "/"}

T_BugFixLogin == <<"B", "u", "g", ":", " ", "F", "i", "x", " ", "l", "o", "g", "i", "n">>
T_CrashOnSave ==
    <<"[", "1", "2", "3", "/", "B", "a", "c", "k", "e", "n", "d", "]", ":", " ",
      "C", "r", "a", "s", "h", " ", "o", "n", " ", "s", "a", "v", "e">>

Titles == (SeqsUpTo(TitleChars, MaxTitleLen) \ {<<>>}) \cup {T_BugFixLogin, T_CrashOnSave}

TitleBoards ==
    {Board(RowLists, <<Card(1, t, "l3", 1, <<"m1">>, <<<<"x">>>>, <<>>)>>) : t \in Titles}

InitTitle ==
    \E b \in TitleBoards :
        Start(b, [story_limit |-> DefaultStoryLimit,
                  default_estimate |-> DefaultEstimate], DeclaredItems)

SpecTitle == InitTitle /\ [][Next]_vars

\* Boards of up to two cards for the tasks: each card has or lacks
\* checklists, checkItemStates, desc and comments; the cards' check items
\* may share an id
TaskChecklists ==
    {<<>>,
     [checklists |-> <<>>],
     [checklists |-> <<[name |-> S_Checklist,
                        checkItems |-> <<Item("i1", <<"x">>, "incomplete")>>]>>],
     [checklists |-> <<[name |-> <<"Q", "A">>,
                        checkItems |-> <<Item("i1", <<"y">>, "complete"),
                                         Item("i2", <<"z">>, "incomplete")>>]>>]}

TaskStates ==
    {<<>>,
     [checkItemStates |-> <<>>],
     [checkItemStates |-> <<[idCheckItem |-> "i1", state |-> "complete"]>>],
     [checkItemStates |-> <<[idCheckItem |-> "i1", state |-> "incomplete"],
                            [idCheckItem |-> "i2", state |-> "complete"]>>]}

TaskOthers ==
    {<<>>, [desc |-> <<"d">>], [comments |-> 1], [desc |-> <<>>, comments |-> 0]}

TaskBoards ==
    {Board(RowLists,
           [i \in 1..Len(v) |->
               Card(i, <<"t">>, "l3", i, <<>>, <<>>, v[i][1] @@ v[i][2] @@ v[i][3])]) :
        v \in SeqsUpTo(TaskChecklists \X TaskStates \X TaskOthers, 2)}

InitTasks ==
    \E b \in TaskBoards :
        Start(b, [story_limit |-> DefaultStoryLimit,
                  default_estimate |-> DefaultEstimate], DeclaredItems)

SpecTasks == InitTasks /\ [][Next]_vars

\* Boards for the lookups: a card's list id and member ids may be absent
\* from the board's lists and members, and its title may raise
MaxLookupCards == 2

LookupBoards ==
    {Board(RowLists,
           [i \in 1..Len(v) |->
               Card(i, v[i][3], v[i][1], i, v[i][2], <<>>, <<>>)]) :
        v \in SeqsUpTo({"l3", "lX"}
                       \X {<<>>, <<"m1">>, <<"mX">>, <<"m1", "mX">>, <<"mX", "m2">>}
                       \X {<<"t">>, <<"a", ":", " ", "t">>},
                       MaxLookupCards)}

InitLookup ==
    \E b \in LookupBoards :
        Start(b, [story_limit |-> DefaultStoryLimit,
                  default_estimate |-> DefaultEstimate], DeclaredItems)

SpecLookup == InitLookup /\ [][Next]_vars

(***************************************************************************)
(* Properties                                                              *)
(***************************************************************************)
\* the rows written so far, over all files, in the order written
EmittedRows == Flatten([i \in 1..Len(files) |-> files[i].rows])

\* the card a row was written for: the Description cell ends with the
\* card's url, which no two cards share
CardOfRow(row) == CHOOSE c \in Range(board.cards) : Description(c) = row[2]

PagesComputed == pc \in {"page", "card", "done"}

\* C1: for every card list and every page limit >= 1, the pages of paginate
\* concatenated in page order are the full ordered card sequence, every page
\* is non-empty, every page but possibly the last has exactly `limit` cards,
\* an empty card list gives zero pages, and a finished run has written, file
\* by file, the rows of each page's cards in order.
PaginationLaw ==
    /\ PagesComputed =>
          /\ Flatten(pages) = all_cards
          /\ \A i \in 1..Len(pages) : Len(pages[i]) >= 1
          /\ \A i \in 1..(Len(pages) - 1) : Len(pages[i]) = arguments.story_limit
          /\ Len(pages) >= 1 => Len(pages[Len(pages)]) <= arguments.story_limit
          /\ all_cards = <<>> => pages = <<>>
    /\ pc = "done" =>
          /\ Len(files) = Len(pages)
          /\ \A i \in 1..Len(files) :
                /\ Len(files[i].rows) = Len(pages[i])
                /\ \A j \in 1..Len(pages[i]) :
                      files[i].rows[j][2] = Description(pages[i][j])

PaginationWitness ==
    /\ pc = "done"
    /\ Len(pages) >= 2
    /\ Len(pages[Len(pages)]) < arguments.story_limit
    /\ Len(pages[1]) = arguments.story_limit

\* the position of the card's list and the card's place in the input, read
\* from the input itself
ListPosOf(c) == (CHOOSE l \in Range(board.lists) : l.id = c.idList).pos
InputIndex(c) == CHOOSE i \in 1..Len(board.cards) : board.cards[i] = c

ComesBefore(a, b) ==
    \/ ListPosOf(a) > ListPosOf(b)
    \/ ListPosOf(a) = ListPosOf(b) /\ a.pos < b.pos
    \/ ListPosOf(a) = ListPosOf(b) /\ a.pos = b.pos /\ InputIndex(a) < InputIndex(b)

\* C2: the rows are emitted, across all pages, by descending position of the
\* card's list, then by ascending card position, and cards equal in both in
\* their input order; a finished run has emitted a row for every card.
EmissionOrder ==
    /\ \A i, j \in 1..Len(EmittedRows) :
          i < j => ComesBefore(CardOfRow(EmittedRows[i]), CardOfRow(EmittedRows[j]))
    /\ pc = "done" => Len(EmittedRows) = Len(board.cards)

EmissionOrderWitness ==
    /\ pc = "done"
    /\ \E i, j \in 1..Len(EmittedRows) :
          LET a == CardOfRow(EmittedRows[i])
              b == CardOfRow(EmittedRows[j])
          IN  /\ i < j
              /\ a.idList # b.idList
              /\ ListPosOf(a) = ListPosOf(b)
              /\ a.pos = b.pos
    /\ \E i, j \in 1..Len(EmittedRows) :
          /\ i < j
          /\ InputIndex(CardOfRow(EmittedRows[i])) > InputIndex(CardOfRow(EmittedRows[j]))

\* the check items of a card and of the board, and the largest comment
\* count, counted from the input
ItemCount(c) ==
    IF "checklists" \in DOMAIN c
    THEN Cardinality({p \in (1..Len(c.checklists)) \X (1..Len(CardItems(c))) :
                         p[2] <= Len(c.checklists[p[1]].checkItems)})
    ELSE 0

BoardItemCount == SeqSum([i \in 1..Len(board.cards) |-> ItemCount(board.cards[i])])

BoardMaxComments ==
    LET S == {board.cards[i].comments :
                 i \in {k \in 1..Len(board.cards) : "comments" \in DOMAIN board.cards[k]}}
    IN  IF S = {} THEN 0 ELSE CHOOSE m \in S \cup {0} : \A x \in S \cup {0} : x <= m

\* C10: every emitted page carries the same header of exactly 8 + 2*S + M
\* columns, S the sum over all cards of the board of their check-item counts
\* and M the largest comment count (0 when no card has one); every row has
\* 8 + 2*(its card's check-item count) cells, never more than 8 + 2*S.
HeaderWidth ==
    \A i \in 1..Len(files) :
        /\ Len(files[i].header) = 8 + 2 * BoardItemCount + BoardMaxComments
        /\ files[i].header = files[1].header
        /\ \A j \in 1..Len(files[i].rows) :
              LET row == files[i].rows[j]
              IN  /\ Len(row) = 8 + 2 * ItemCount(CardOfRow(row))
                  /\ Len(row) <= 8 + 2 * BoardItemCount

HeaderWidthWitness ==
    /\ pc = "done"
    /\ Len(files) >= 2
    /\ BoardMaxComments > 0
    /\ \E i, j \in 1..Len(board.cards) :
          i # j /\ ItemCount(board.cards[i]) > 0 /\ ItemCount(board.cards[j]) > 0
    /\ \E i \in 1..Len(EmittedRows) : Len(EmittedRows[i]) < 8 + 2 * BoardItemCount

\* the name of the card's list, read from the input
ListNameOf(c) == (CHOOSE l \in Range(board.lists) : l.id = c.idList).name

\* the labels of a row's Labels cell
RowLabelsOf(row) == Split(row[5], ",")

Count(x, s) == Cardinality({i \in 1..Len(s) : s[i] = x})

Ended == pc \in {"done", "failed"}

\* the card whose transform raised, when the run failed in the card loop
FailedCard == pages[page + 1][cardIdx + 1]

\* the override map of the card itself, empty when it has none
OwnStates(c) ==
    [bound |-> TRUE,
     map |-> IF "checkItemStates" \in DOMAIN c
             THEN DictOf([i \in 1..Len(c.checkItemStates) |->
                            <<c.checkItemStates[i].idCheckItem,
                              c.checkItemStates[i].state>>])
             ELSE <<>>]

\* C3: each emitted task pair is computed from its card alone: checklist
\* order then item order, the item name prefixed by "<checklist name>: "
\* unless the checklist is named "Checklist", the status from the card's own
\* checkItemStates entry for the item id when it has one and otherwise from
\* the item's state; no entry of an earlier card decides a later card's
\* status.
TasksFromOwnCard ==
    \A i \in 1..Len(EmittedRows) :
        LET row == EmittedRows[i]
        IN  SubSeq(row, 9, Len(row)) = Tasks(CardOfRow(row), OwnStates(CardOfRow(row))).tasks

OptionalFields == {"desc", "checklists", "comments", "checkItemStates"}

\* C4: a card that lacks desc, checklists, comments or checkItemStates, at
\* any place in the processing order, is transformed into a row without an
\* error: the run never fails at such a card.
MissingFieldsTolerated ==
    (pc = "failed" /\ pages # <<>>) => OptionalFields \subseteq DOMAIN FailedCard

\* C5: for a title without the estimate prefix that a tag pattern matches,
\* the title becomes the Name group and every trimmed tag segment that is
\* not purely numeric is appended to the labels, without error; the two
\* titles of the documentation give "Fix login" with "Bug" added and
\* "Crash on save" with "Backend" added and "123" dropped.
TagExtractionClaim ==
    Ended =>
        LET c == board.cards[1]
            hits == SelectSeq(NAME_TAG_RES, LAMBDA r : MatchTag(r, c.name) # None)
            groups == MatchTag(hits[1], c.name)[1]
            wanted == SelectSeq(TagSegments(groups.tags), LAMBDA x : ~IntParses(x))
        IN  /\ (EstimateMatches(c.name) = {} /\ hits # <<>>) =>
                  /\ err = ""
                  /\ Len(EmittedRows) = 1
                  /\ EmittedRows[1][1] = groups.name
                  /\ RowLabelsOf(EmittedRows[1]) = CardLabels(c) \o wanted
            /\ c.name = T_BugFixLogin =>
                  /\ Len(EmittedRows) = 1
                  /\ EmittedRows[1][1] = <<"F", "i", "x", " ", "l", "o", "g", "i", "n">>
                  /\ RowLabelsOf(EmittedRows[1]) = CardLabels(c) \o <<<<"B", "u", "g">>>>
            /\ c.name = T_CrashOnSave =>
                  /\ Len(EmittedRows) = 1
                  /\ EmittedRows[1][1] =
                        <<"C", "r", "a", "s", "h", " ", "o", "n", " ", "s", "a", "v", "e">>
                  /\ RowLabelsOf(EmittedRows[1]) =
                        CardLabels(c) \o <<<<"B", "a", "c", "k", "e", "n", "d">>>>

\* C6: a feature row's estimate is null in an unstarted or unscheduled
\* state; otherwise it is the value of the first entry of the label table,
\* in its declared order Short then Medium, whose label the card carries,
\* and the default estimate when it carries none (no list has a default).
EstimateClaim ==
    \A i \in 1..Len(EmittedRows) :
        LET row == EmittedRows[i]
            has(l) == l \in Range(RowLabelsOf(row))
        IN  row[7] = "feature" =>
                IF row[6] \in {"unstarted", "unscheduled"} THEN row[8] = None
                ELSE IF has(S_Short) THEN row[8] = Some(1)
                ELSE IF has(S_Medium) THEN row[8] = Some(2)
                ELSE row[8] = Some(arguments.default_estimate)

\* C7: every row of a card whose list the state map maps to "epic" has story
\* type epic, state unscheduled and a null estimate, whatever its labels and
\* the default estimate; every other row has story type feature.
EpicRows ==
    \A i \in 1..Len(EmittedRows) :
        LET row == EmittedRows[i]
            name == ListNameOf(CardOfRow(row))
        IN  IF name \in DOMAIN LIST_STATES /\ LIST_STATES[name] = "epic"
            THEN row[7] = "epic" /\ row[6] = "unscheduled" /\ row[8] = None
            ELSE row[7] = "feature"

EpicRowsWitness ==
    /\ pc = "done"
    /\ arguments.default_estimate > 0
    /\ \E i \in 1..Len(EmittedRows) :
          /\ EmittedRows[i][7] = "epic"
          /\ S_Medium \in Range(RowLabelsOf(EmittedRows[i]))

\* C8: a row of a card whose list name is no key of the state map has state
\* unscheduled and the list's name among its labels; a row of a card whose
\* list name is a key has that name among its labels only as often as the
\* card itself carries it.
ListLabel ==
    \A i \in 1..Len(EmittedRows) :
        LET row == EmittedRows[i]
            c == CardOfRow(row)
            name == ListNameOf(c)
        IN  IF name \notin DOMAIN LIST_STATES
            THEN /\ row[6] = "unscheduled"
                 /\ name \in Range(RowLabelsOf(row))
            ELSE Count(name, RowLabelsOf(row)) = Count(name, CardLabels(c))

ListLabelWitness ==
    /\ pc = "done"
    /\ \E i \in 1..Len(EmittedRows) :
          LET row == EmittedRows[i]
          IN  /\ ListNameOf(CardOfRow(row)) = S_Todo
              /\ Len(RowLabelsOf(row)) >= 3

HasList(c) == \E i \in 1..Len(board.lists) : board.lists[i].id = c.idList
HasMember(m) == \E i \in 1..Len(board.members) : board.members[i].id = m

\* C9 as stated: a run over a board with a card whose list id the lists
\* lack, or with a member id the members lack at any place of a card's
\* idMembers, does not complete.
AnyMissingReferenceFails ==
    (\E c \in Range(board.cards) :
        ~HasList(c) \/ \E k \in 1..Len(c.idMembers) : ~HasMember(c.idMembers[k]))
    => pc # "done"

FirstMemberMissing(c) == c.idMembers # <<>> /\ ~HasMember(c.idMembers[1])

\* C9 as amended: with a card whose list id the lists lack, the run fails
\* with a lookup error in the sort, before any file is written.  A card
\* whose FIRST member id the members lack never gets a row and the run does
\* not complete; the failure at that card is a lookup error unless its title
\* step raised first.  A member id at a later place is never looked up: a
\* card fails at the owner lookup only on its first member id.
MissingReferenceFails ==
    /\ (pc # "read" /\ pc # "sort" /\ \E c \in Range(board.cards) : ~HasList(c)) =>
          pc = "failed" /\ err = "KeyError" /\ files = <<>>
    /\ \A c \in Range(board.cards) :
          FirstMemberMissing(c) =>
              /\ pc # "done"
              /\ \A i \in 1..Len(EmittedRows) : CardOfRow(EmittedRows[i]) # c
    /\ (pc = "failed" /\ pages # <<>>) =>
          /\ (FirstMemberMissing(FailedCard)
                /\ ExtractTitle(FailedCard.name, CardLabels(FailedCard)).err = "")
             => err = "KeyError"
          /\ err = "KeyError" => FirstMemberMissing(FailedCard)
    /\ pc = "done" => Len(EmittedRows) = Len(board.cards)

MissingReferenceWitness ==
    /\ pc = "failed"
    /\ err = "KeyError"
    /\ pages # <<>>
    /\ FirstMemberMissing(FailedCard)
    /\ \E i \in 1..Len(EmittedRows) :
          \E k \in 2..Len(CardOfRow(EmittedRows[i]).idMembers) :
              ~HasMember(CardOfRow(EmittedRows[i]).idMembers[k])

====
